---- MODULE Spec2Model ----
(***************************************************************************)
(* Model of the Blockchain class of src/app.ts (lines 76-315): the chain   *)
(* array, the height counter and the promise-based operations on them.     *)
(*                                                                         *)
(* JavaScript runs one job at a time.  A promise reaction (.then/.catch    *)
(* callback, await continuation) is a job of the FIFO microtask queue, so  *)
(* the model keeps that queue explicitly: every callback of the source is  *)
(* one job kind, and RunJob executes the head of the queue.  Calls made by *)
(* the users of the class are the environment's actions.                   *)
(***************************************************************************)
EXTENDS Integers, Sequences, FiniteSets, TLC

\* ---------------------------------------------------------------- bounds
\* calls that queue a job, per specification (the constructor's is extra)
MaxCalls == 2
MaxAppendCalls == 2
MaxTamperCalls == 3
MaxStarCalls == 3
MaxQueryCalls == 2
MaxValidateCalls == 4
MaxReplayCalls == 4
MaxAuthCalls == 3
\* times the clock advances
MaxTicks == 1

\* ------------------------------------------------------------ input sets
Address == {"A", "B"}
Stars == {"s1", "s2"}
\* seconds between the time written in a message and the current time
Elapsed == {-60, 300, 301, 359, 360}
\* heights named to the tamper hooks where only the first blocks matter
TamperHeights == {0, 1}
\* clock (epoch seconds) when the Blockchain object is constructed
StartTime == 1000

\* --------------------------------------------------- program's constants
TamperTime == 3
TamperHash == 123456
WindowMinutes == 5
SecondsPerMinute == 60

\* chain, height: the fields of the Blockchain object
\* queue:         the microtask queue (promise reactions not yet run)
\* errorLog:      the errorLog array of each validateChain invocation
\* stars:         the stars array of each getStarsByWalletAddress invocation
\* now, ticks:    the clock in seconds, and how often it has advanced
\* nextId:        the number given to the next call that queues a job
\* obs:           what the step just taken returned or delivered to a caller
VARIABLES chain, height, queue, errorLog, stars, now, ticks, nextId, obs

vars == <<chain, height, queue, errorLog, stars, now, ticks, nextId, obs>>

\* ------------------------------------------------------------------ Block
\* previousBlockHash of a block that has none (the field is never assigned)
NoHash == <<>>

\* Block body: the payload as the Block constructor stores it (encoded)
Encode(data) ==
    IF "owner" \in DOMAIN data
    THEN <<"owner", data.owner, data.star>>
    ELSE <<"data", data.data, "">>

\* getBData: the decoded payload; the promise rejects for the genesis block
GetBData(block) ==
    IF block.body[1] = "owner"
    THEN [settled |-> "fulfilled",
          value |-> [owner |-> block.body[2], star |-> block.body[3]]]
    ELSE [settled |-> "rejected", value |-> [owner |-> "", star |-> ""]]

\* new Block(data): only the body is set
NewBlock(data) ==
    [body |-> Encode(data), height |-> 0, time |-> 0,
     previousBlockHash |-> NoHash, hash |-> NoHash]

\* SHA256(JSON.stringify(block)) of a block whose hash field is empty: an
\* injective function of body, height, time and previousBlockHash
SHA256(body, h, time, prev) == <<body, h, time>> \o prev

\* Block.validate: the hash recomputed from the current fields is the stored
BlockValidate(block) ==
    block.hash = SHA256(block.body, block.height, block.time,
                        block.previousBlockHash)

GenesisData == [data |-> "Genesis Block"]

\* ------------------------------------------------------ messages, signing
\* A message is the list of its colon-separated fields; a field is text or a
\* decimal number.  NoMessage is a call without the message argument.
Txt(s) == [isNum |-> FALSE, n |-> 0, s |-> s]
Num(n) == [isNum |-> TRUE, n |-> n, s |-> ""]
Message(fields) == [defined |-> TRUE, fields |-> fields]
NoMessage == [defined |-> FALSE, fields |-> <<>>]

\* `${address}:${seconds}:starRegistry`
OwnershipMessage(address, seconds) ==
    Message(<<Txt(address), Num(seconds), Txt("starRegistry")>>)

\* parseInt(message.split(':')[1]): NaN when the field is missing or no number
ParseTime(message) ==
    IF Len(message.fields) >= 2 /\ message.fields[2].isNum
    THEN [nan |-> FALSE, n |-> message.fields[2].n]
    ELSE [nan |-> TRUE, n |-> 0]

\* Expired rejecting also a time that is ahead of the clock or no number
ExpiredOutsideWindow(currentTime, time) ==
    \/ time.nan
    \/ currentTime < time.n
    \/ ((currentTime - time.n) \div SecondsPerMinute) > WindowMinutes

\* Math.floor((currentTime - time) / 60) > 5; every comparison with NaN is false
Expired(currentTime, time) ==
    /\ ~time.nan
    /\ ((currentTime - time.n) \div SecondsPerMinute) > WindowMinutes

\* a signature names who signed which message, or is not decodable at all
Sign(signer, message) == [wellFormed |-> TRUE, signer |-> signer, message |-> message]
Malformed == [wellFormed |-> FALSE, signer |-> "", message |-> NoMessage]

\* bitcoinMessage.verify(message, address, signature): true, false or throws
Verify(message, address, signature) ==
    IF ~signature.wellFormed THEN "throws"
    ELSE IF signature.signer = address /\ signature.message = message
         THEN "true" ELSE "false"

\* what a caller with address a may present as message at time cur: a message
\* issued some time ago or ahead, one whose second field is no number, one
\* with a single field, none at all
Messages(a, cur) ==
    {OwnershipMessage(a, cur - d) : d \in Elapsed}
        \cup {Message(<<Txt(a), Txt("soon"), Txt("starRegistry")>>),
              Message(<<Txt(a)>>), NoMessage}

\* and as signature: the message signed by some address, or bytes that are
\* no signature
Signatures(message) ==
    {Sign(a, message) : a \in Address} \cup {Malformed}

\* --------------------------------------------------------- validateChain
ErrNotValid(h) == [kind |-> "notValid", h |-> h]
ErrPrevHash(h) == [kind |-> "prevHash", h |-> h]

\* self.chain.map((block) => [block.validate(), block.height])
ValidationValues(c) ==
    [i \in 1..Len(c) |-> [passed |-> BlockValidate(c[i]), h |-> c[i].height]]

\* CheckBlock without the entry for a block that fails its own validation
CheckBlockLinkOnly(c, passed, h) ==
    IF h > 0 /\ c[h + 1].previousBlockHash # c[h].hash
    THEN <<ErrPrevHash(h)>> ELSE <<>>

\* CheckBlock with the test of the block's own validation inverted
CheckBlockPassedInverted(c, passed, h) ==
    (IF passed THEN <<ErrNotValid(h)>> ELSE <<>>)
    \o (IF h > 0 /\ c[h + 1].previousBlockHash # c[h].hash
        THEN <<ErrPrevHash(h)>> ELSE <<>>)

\* CheckBlock with the comparison of the hashes made first
CheckBlockLinkFirst(c, passed, h) ==
    (IF h > 0 /\ c[h + 1].previousBlockHash # c[h].hash
     THEN <<ErrPrevHash(h)>> ELSE <<>>)
    \o (IF ~passed THEN <<ErrNotValid(h)>> ELSE <<>>)

\* the callback of value[0].then: what it pushes for one [validation, height]
\* pair; self.chain[height] of the source is c[h + 1] here
CheckBlock(c, passed, h) ==
    (IF ~passed THEN <<ErrNotValid(h)>> ELSE <<>>)
    \o (IF h > 0 /\ c[h + 1].previousBlockHash # c[h].hash
        THEN <<ErrPrevHash(h)>> ELSE <<>>)

\* ------------------------------------------------------------------ jobs
\* sameRun: the job was queued by the same run of code as the job before it
\* in the queue was, so that no other code can run between the two.
NoObs == [kind |-> "none"]

AddStep1Job(id, block, h, from, corrupt) ==
    [type |-> "addStep1", id |-> id, sameRun |-> FALSE, block |-> block,
     h |-> h, from |-> from, corrupt |-> corrupt]

AllJob(type, id, values, cons) ==
    [type |-> type, id |-> id, sameRun |-> FALSE, values |-> values,
     cons |-> cons]

CheckJob(id, v, same) ==
    [type |-> "check", id |-> id, sameRun |-> same, passed |-> v.passed,
     h |-> v.h]

ConsumerJob(id, cons, same) ==
    [type |-> "consumer", id |-> id, sameRun |-> same, cons |-> cons]

SettleJob(type, id, outcome) ==
    [type |-> type, id |-> id, sameRun |-> FALSE, outcome |-> outcome]

TamperJob(id, what, idx) ==
    [type |-> "tamper", id |-> id, sameRun |-> FALSE, what |-> what,
     idx |-> idx]

StarJob(type, id, address, data, same) ==
    [type |-> type, id |-> id, sameRun |-> same, address |-> address,
     data |-> data]

StarsConsumerJob(id, address, expect, same) ==
    [type |-> "starsConsumer", id |-> id, sameRun |-> same,
     address |-> address, expect |-> expect]

\* code of a caller can run when no job is due that belongs to the run of the
\* job before it
CallerMayRun == IF queue = <<>> THEN TRUE ELSE ~Head(queue).sameRun

\* the budgets of the specifications
CallBounds ==
    {MaxCalls, MaxAppendCalls, MaxTamperCalls, MaxStarCalls, MaxQueryCalls,
     MaxValidateCalls, MaxReplayCalls, MaxAuthCalls}

\* the constructor's call is 0, the callers' calls are numbered from 1
Ids ==
    0..(CHOOSE n \in CallBounds : \A m \in CallBounds : m <= n)

\* some block does not validate or is not linked to the block stored before it
ChainCorrupt(c) ==
    \/ \E i \in 1..Len(c) : ~BlockValidate(c[i])
    \/ \E i \in 2..Len(c) : c[i].previousBlockHash # c[i - 1].hash

\* heights of the blocks that tamperWithBlock or tamperWithChain has changed
TamperedHeights(c) ==
    {c[i].height : i \in {k \in 1..Len(c) :
        c[k].time = TamperTime \/ c[k].previousBlockHash = <<TamperHash>>}}

\* the decoded payloads of the blocks of c owned by address, in chain order
RECURSIVE OwnedBy(_, _)
OwnedBy(c, address) ==
    IF c = <<>> THEN <<>>
    ELSE LET d == GetBData(Head(c))
         IN  (IF d.settled = "fulfilled" /\ d.value.owner = address
              THEN <<d.value>> ELSE <<>>) \o OwnedBy(Tail(c), address)

\* ------------------------------------------------------------------- Init
\* the state when the constructor returns: initializeChain has run up to its
\* await, _addBlock has called getChainHeight and queued its .then callback
Init ==
    /\ chain = <<>>
    /\ height = -1
    /\ queue = <<AddStep1Job(0, NewBlock(GenesisData), -1, "init", FALSE)>>
    /\ errorLog = [i \in Ids |-> <<>>]
    /\ stars = [i \in Ids |-> <<>>]
    /\ now = StartTime
    /\ ticks = 0
    /\ nextId = 1
    /\ obs = NoObs

\* ---------------------------------------------------------- validateChain
Consumer(kind, block, from, corrupt) ==
    [kind |-> kind, block |-> block, from |-> from, corrupt |-> corrupt,
     need |-> TamperedHeights(chain), at |-> chain]

\* the synchronous part of validateChain followed by the caller's .then:
\* Promise.all of an empty array is fulfilled at once, otherwise after the
\* reactions of its elements (one job here: they are queued together and
\* change nothing)
ValidateChain(q, id, cons) ==
    Append(q, AllJob(IF chain = <<>> THEN "allDone" ELSE "allElems", id,
                     ValidationValues(chain), cons))

\* the reactions of the elements of Promise.all fulfil it
RunAllElems ==
    /\ queue # <<>> /\ Head(queue).type = "allElems"
    /\ queue' = Append(Tail(queue), [Head(queue) EXCEPT !.type = "allDone"])
    /\ obs' = NoObs
    /\ UNCHANGED <<chain, height, errorLog, stars, now, ticks, nextId>>

\* jobs queued by the .then callback of Promise.all: a check per value, whose
\* promise is settled already, then the reaction to resolve(errorLog)
ChecksThenConsumer(j) ==
    [i \in 1..Len(j.values) |-> CheckJob(j.id, j.values[i], i > 1)]
        \o <<ConsumerJob(j.id, j.cons, j.values # <<>>)>>

RunAllDone ==
    /\ queue # <<>> /\ Head(queue).type = "allDone"
    /\ queue' = Tail(queue) \o ChecksThenConsumer(Head(queue))
    /\ obs' = NoObs
    /\ UNCHANGED <<chain, height, errorLog, stars, now, ticks, nextId>>

RunCheck ==
    /\ queue # <<>> /\ Head(queue).type = "check"
    /\ LET j == Head(queue)
       IN  errorLog' = [errorLog EXCEPT
                          ![j.id] = @ \o CheckBlock(chain, j.passed, j.h)]
    /\ queue' = Tail(queue)
    /\ obs' = NoObs
    /\ UNCHANGED <<chain, height, stars, now, ticks, nextId>>

\* ------------------------------------------------------------- _addBlock
\* the synchronous part: getChainHeight() is fulfilled with this.height and
\* its .then callback is queued
AddBlock(q, id, block, from) ==
    Append(q, AddStep1Job(id, block, height, from, ChainCorrupt(chain)))

\* the callback of getChainHeight().then: stamp the block, call validateChain
Stamp(block, h) ==
    LET b == [block EXCEPT
                !.previousBlockHash =
                    IF h > -1 THEN chain[height + 1].hash ELSE @,
                !.height = h + 1,
                !.time = now]
    IN  [b EXCEPT !.hash = SHA256(b.body, b.height, b.time,
                                  b.previousBlockHash)]

\* RunAddStep1 with the block pushed as soon as it is stamped
RunAddStep1PushEarly ==
    /\ queue # <<>> /\ Head(queue).type = "addStep1"
    /\ LET j == Head(queue)
       IN  /\ queue' = ValidateChain(Tail(queue), j.id,
                           Consumer("add", Stamp(j.block, j.h), j.from,
                                    j.corrupt))
           /\ errorLog' = [errorLog EXCEPT ![j.id] = <<>>]
           /\ chain' = Append(chain, Stamp(j.block, j.h))
    /\ obs' = NoObs
    /\ UNCHANGED <<height, stars, now, ticks, nextId>>

RunAddStep1 ==
    /\ queue # <<>> /\ Head(queue).type = "addStep1"
    /\ LET j == Head(queue)
       IN  /\ queue' = ValidateChain(Tail(queue), j.id,
                           Consumer("add", Stamp(j.block, j.h), j.from,
                                    j.corrupt))
           /\ errorLog' = [errorLog EXCEPT ![j.id] = <<>>]
    /\ obs' = NoObs
    /\ UNCHANGED <<chain, height, stars, now, ticks, nextId>>

\* the reaction to the promise of _addBlock: the .then of submitStar or the
\* await of initializeChain
AddSettled(j, outcome) ==
    SettleJob(IF j.cons.from = "submit" THEN "submitThen" ELSE "initResume",
              j.id, outcome)

Validated(j, outcome) ==
    [kind |-> "validated", by |-> j.cons.kind, id |-> j.id,
     errors |-> errorLog[j.id], need |-> j.cons.need,
     corrupt |-> j.cons.corrupt, at |-> j.cons.at, outcome |-> outcome]

\* RunAddConsumer without self.height++
RunAddConsumerNoCount ==
    /\ queue # <<>> /\ Head(queue).type = "consumer"
    /\ Head(queue).cons.kind = "add"
    /\ LET j == Head(queue)
       IN  IF Len(errorLog[j.id]) = 0
           THEN /\ chain' = Append(chain, j.cons.block)
                /\ queue' = Append(Tail(queue), AddSettled(j, "resolved"))
                /\ obs' = Validated(j, "resolved")
           ELSE /\ queue' = Append(Tail(queue), AddSettled(j, "rejected"))
                /\ obs' = Validated(j, "rejected")
                /\ UNCHANGED chain
    /\ errorLog' = [errorLog EXCEPT ![Head(queue).id] = <<>>]
    /\ UNCHANGED <<height, stars, now, ticks, nextId>>

\* RunAddConsumer with self.chain.unshift(block) for self.chain.push(block)
RunAddConsumerUnshift ==
    /\ queue # <<>> /\ Head(queue).type = "consumer"
    /\ Head(queue).cons.kind = "add"
    /\ LET j == Head(queue)
       IN  IF Len(errorLog[j.id]) = 0
           THEN /\ chain' = <<j.cons.block>> \o chain
                /\ height' = height + 1
                /\ queue' = Append(Tail(queue), AddSettled(j, "resolved"))
                /\ obs' = Validated(j, "resolved")
           ELSE /\ queue' = Append(Tail(queue), AddSettled(j, "rejected"))
                /\ obs' = Validated(j, "rejected")
                /\ UNCHANGED <<chain, height>>
    /\ errorLog' = [errorLog EXCEPT ![Head(queue).id] = <<>>]
    /\ UNCHANGED <<stars, now, ticks, nextId>>

\* the callback of validateChain().then in _addBlock
RunAddConsumer ==
    /\ queue # <<>> /\ Head(queue).type = "consumer"
    /\ Head(queue).cons.kind = "add"
    /\ LET j == Head(queue)
       IN  IF Len(errorLog[j.id]) = 0
           THEN /\ chain' = Append(chain, j.cons.block)
                /\ height' = height + 1
                /\ queue' = Append(Tail(queue), AddSettled(j, "resolved"))
                /\ obs' = Validated(j, "resolved")
           ELSE /\ queue' = Append(Tail(queue), AddSettled(j, "rejected"))
                /\ obs' = Validated(j, "rejected")
                /\ UNCHANGED <<chain, height>>
    /\ errorLog' = [errorLog EXCEPT ![Head(queue).id] = <<>>]
    /\ UNCHANGED <<stars, now, ticks, nextId>>

\* the reaction of a caller of validateChain to the promise it returned
RunValidateConsumer ==
    /\ queue # <<>> /\ Head(queue).type = "consumer"
    /\ Head(queue).cons.kind = "caller"
    /\ obs' = Validated(Head(queue), "delivered")
    /\ queue' = Tail(queue)
    /\ errorLog' = [errorLog EXCEPT ![Head(queue).id] = <<>>]
    /\ UNCHANGED <<chain, height, stars, now, ticks, nextId>>

Settled(op, j, outcome) ==
    [kind |-> "settled", op |-> op, id |-> j.id, outcome |-> outcome]

\* .then((block) => resolve(block)) of submitStar; a rejection passes on to
\* the promise that .catch is called on
RunSubmitThen ==
    /\ queue # <<>> /\ Head(queue).type = "submitThen"
    /\ LET j == Head(queue)
       IN  IF j.outcome = "resolved"
           THEN /\ queue' = Tail(queue)
                /\ obs' = Settled("submitStar", j, "resolved")
           ELSE /\ queue' = Append(Tail(queue),
                                   SettleJob("submitCatch", j.id, j.outcome))
                /\ obs' = NoObs
    /\ UNCHANGED <<chain, height, errorLog, stars, now, ticks, nextId>>

\* .catch((error) => reject(error)) of submitStar
RunSubmitCatch ==
    /\ queue # <<>> /\ Head(queue).type = "submitCatch"
    /\ queue' = Tail(queue)
    /\ obs' = Settled("submitStar", Head(queue), "rejected")
    /\ UNCHANGED <<chain, height, errorLog, stars, now, ticks, nextId>>

\* initializeChain after its await: returns, or throws what _addBlock rejected
RunInitResume ==
    /\ queue # <<>> /\ Head(queue).type = "initResume"
    /\ queue' = Tail(queue)
    /\ obs' = Settled("initializeChain", Head(queue), Head(queue).outcome)
    /\ UNCHANGED <<chain, height, errorLog, stars, now, ticks, nextId>>

\* ------------------------------------------------------- initializeChain
\* a call of initializeChain after the constructor's
InitializeChain ==
    /\ CallerMayRun
    /\ IF height = -1
       THEN /\ queue' = AddBlock(queue, nextId, NewBlock(GenesisData), "init")
            /\ nextId' = nextId + 1
            /\ obs' = [kind |-> "called", op |-> "initializeChain",
                       id |-> nextId]
       ELSE /\ obs' = [kind |-> "called", op |-> "initializeChain", id |-> -1]
            /\ UNCHANGED <<queue, nextId>>
    /\ UNCHANGED <<chain, height, errorLog, stars, now, ticks>>

\* ------------------------------------------------------------- submitStar
Submitted(address, message, signature, outcome, id) ==
    [kind |-> "submitStar", address |-> address, message |-> message,
     signature |-> signature, outcome |-> outcome, id |-> id]

\* SubmitStar with the catch branch going on to _addBlock
SubmitStarCatchAdds(address, message, signature, star) ==
    /\ CallerMayRun
    /\ IF ~message.defined
       THEN /\ obs' = Submitted(address, message, signature, "pending", -1)
            /\ UNCHANGED <<queue, nextId>>
       ELSE IF Expired(now, ParseTime(message))
       THEN /\ obs' = Submitted(address, message, signature, "expired", -1)
            /\ UNCHANGED <<queue, nextId>>
       ELSE IF Verify(message, address, signature) # "false"
       THEN /\ queue' = AddBlock(queue, nextId,
                            NewBlock([owner |-> address, star |-> star]),
                            "submit")
            /\ nextId' = nextId + 1
            /\ obs' = Submitted(address, message, signature, "adding", nextId)
       ELSE /\ obs' = Submitted(address, message, signature, "notValid", -1)
            /\ UNCHANGED <<queue, nextId>>
    /\ UNCHANGED <<chain, height, errorLog, stars, now, ticks>>

\* SubmitStar taking every result of verify but a throw as a pass
SubmitStarUnverified(address, message, signature, star) ==
    /\ CallerMayRun
    /\ IF ~message.defined
       THEN /\ obs' = Submitted(address, message, signature, "pending", -1)
            /\ UNCHANGED <<queue, nextId>>
       ELSE IF Expired(now, ParseTime(message))
       THEN /\ obs' = Submitted(address, message, signature, "expired", -1)
            /\ UNCHANGED <<queue, nextId>>
       ELSE IF Verify(message, address, signature) # "throws"
       THEN /\ queue' = AddBlock(queue, nextId,
                            NewBlock([owner |-> address, star |-> star]),
                            "submit")
            /\ nextId' = nextId + 1
            /\ obs' = Submitted(address, message, signature, "adding", nextId)
       ELSE /\ obs' = Submitted(address, message, signature, "threw", -1)
            /\ UNCHANGED <<queue, nextId>>
    /\ UNCHANGED <<chain, height, errorLog, stars, now, ticks>>

\* SubmitStar with the signature verified before the time check
SubmitStarVerifyFirst(address, message, signature, star) ==
    /\ CallerMayRun
    /\ IF ~message.defined
       THEN /\ obs' = Submitted(address, message, signature, "pending", -1)
            /\ UNCHANGED <<queue, nextId>>
       ELSE IF Verify(message, address, signature) # "true"
       THEN /\ obs' = Submitted(address, message, signature,
                            IF Verify(message, address, signature) = "false"
                            THEN "notValid" ELSE "threw", -1)
            /\ UNCHANGED <<queue, nextId>>
       ELSE IF Expired(now, ParseTime(message))
       THEN /\ obs' = Submitted(address, message, signature, "expired", -1)
            /\ UNCHANGED <<queue, nextId>>
       ELSE /\ queue' = AddBlock(queue, nextId,
                            NewBlock([owner |-> address, star |-> star]),
                            "submit")
            /\ nextId' = nextId + 1
            /\ obs' = Submitted(address, message, signature, "adding", nextId)
    /\ UNCHANGED <<chain, height, errorLog, stars, now, ticks>>

\* the executor of submitStar's promise.  Without a message, message.split
\* throws inside the async executor and the promise is never settled.
\* outcome: "expired", "notValid" and "threw" are the three reject calls,
\* "adding" is the call of _addBlock.
SubmitStar(address, message, signature, star) ==
    /\ CallerMayRun
    /\ IF ~message.defined
       THEN /\ obs' = Submitted(address, message, signature, "pending", -1)
            /\ UNCHANGED <<queue, nextId>>
       ELSE IF Expired(now, ParseTime(message))
       THEN /\ obs' = Submitted(address, message, signature, "expired", -1)
            /\ UNCHANGED <<queue, nextId>>
       ELSE IF Verify(message, address, signature) = "true"
       THEN /\ queue' = AddBlock(queue, nextId,
                            NewBlock([owner |-> address, star |-> star]),
                            "submit")
            /\ nextId' = nextId + 1
            /\ obs' = Submitted(address, message, signature, "adding", nextId)
       ELSE /\ obs' = Submitted(address, message, signature,
                            IF Verify(message, address, signature) = "false"
                            THEN "notValid" ELSE "threw", -1)
            /\ UNCHANGED <<queue, nextId>>
    /\ UNCHANGED <<chain, height, errorLog, stars, now, ticks>>

\* ------------------------------------------- tamperWithBlock / ...Chain
\* self.chain.filter(p => p.height === height)[0]: the index of the block, 0
\* when there is none
GetBlockByHeight(c, h) ==
    LET found == {i \in 1..Len(c) : c[i].height = h}
    IN  IF found = {} THEN 0
        ELSE CHOOSE i \in found : \A k \in found : i <= k

\* the call up to the await of getBlockByHeight
Tamper(what, h) ==
    /\ CallerMayRun
    /\ queue' = Append(queue, TamperJob(nextId, what,
                                        GetBlockByHeight(chain, h)))
    /\ nextId' = nextId + 1
    /\ obs' = [kind |-> "called", op |-> what, id |-> nextId]
    /\ UNCHANGED <<chain, height, errorLog, stars, now, ticks>>

TamperWithBlock(h) == Tamper("tamperWithBlock", h)

TamperWithChain(h) == Tamper("tamperWithChain", h)

\* after the await: overwrite the field of the block found
RunTamper ==
    /\ queue # <<>> /\ Head(queue).type = "tamper"
    /\ LET j == Head(queue)
       IN  chain' = IF j.idx = 0 THEN chain
                    ELSE IF j.what = "tamperWithBlock"
                    THEN [chain EXCEPT ![j.idx].time = TamperTime]
                    ELSE [chain EXCEPT
                            ![j.idx].previousBlockHash = <<TamperHash>>]
    /\ queue' = Tail(queue)
    /\ obs' = Settled(Head(queue).what, Head(queue), "resolved")
    /\ UNCHANGED <<height, errorLog, stars, now, ticks, nextId>>

\* --------------------------------------------------- validateChain (call)
ValidateChainCall ==
    /\ CallerMayRun
    /\ queue' = ValidateChain(queue, nextId,
                              Consumer("caller", NewBlock(GenesisData), "",
                                       ChainCorrupt(chain)))
    /\ errorLog' = [errorLog EXCEPT ![nextId] = <<>>]
    /\ nextId' = nextId + 1
    /\ obs' = [kind |-> "called", op |-> "validateChain", id |-> nextId]
    /\ UNCHANGED <<chain, height, stars, now, ticks>>

\* ------------------------------------------------ getStarsByWalletAddress
\* the jobs of one call: for every block the reaction to getBData(), whose
\* promise is settled already (.then callback if fulfilled, else the
\* rejection passing to .catch), then the caller's reaction to resolve(stars)
StarJobs(id, address) ==
    [i \in 1..Len(chain) |->
        LET d == GetBData(chain[i])
        IN  StarJob(IF d.settled = "fulfilled" THEN "starThen" ELSE "starSkip",
                    id, address, d.value, i > 1)]
        \o <<StarsConsumerJob(id, address, OwnedBy(chain, address),
                              chain # <<>>)>>

GetStarsByWalletAddress(address) ==
    /\ CallerMayRun
    /\ queue' = queue \o StarJobs(nextId, address)
    /\ stars' = [stars EXCEPT ![nextId] = <<>>]
    /\ nextId' = nextId + 1
    /\ obs' = [kind |-> "called", op |-> "getStarsByWalletAddress",
               id |-> nextId]
    /\ UNCHANGED <<chain, height, errorLog, now, ticks>>

\* RunStarThen without the comparison of the owner
RunStarThenAnyOwner ==
    /\ queue # <<>> /\ Head(queue).type = "starThen"
    /\ stars' = [stars EXCEPT ![Head(queue).id] = Append(@, Head(queue).data)]
    /\ queue' = Tail(queue)
    /\ obs' = NoObs
    /\ UNCHANGED <<chain, height, errorLog, now, ticks, nextId>>

\* .then((message) => { if (message['owner'] === address) stars.push(message) })
RunStarThen ==
    /\ queue # <<>> /\ Head(queue).type = "starThen"
    /\ LET j == Head(queue)
       IN  stars' = [stars EXCEPT ![j.id] =
                        IF j.data.owner = j.address THEN Append(@, j.data)
                        ELSE @]
    /\ queue' = Tail(queue)
    /\ obs' = NoObs
    /\ UNCHANGED <<chain, height, errorLog, now, ticks, nextId>>

\* a rejected getBData(): the promise of .then is rejected, .catch reacts
RunStarSkip ==
    /\ queue # <<>> /\ Head(queue).type = "starSkip"
    /\ queue' = Append(Tail(queue),
                       [Head(queue) EXCEPT !.type = "starCatch",
                                           !.sameRun = FALSE])
    /\ obs' = NoObs
    /\ UNCHANGED <<chain, height, errorLog, stars, now, ticks, nextId>>

\* .catch(() => {})
RunStarCatch ==
    /\ queue # <<>> /\ Head(queue).type = "starCatch"
    /\ queue' = Tail(queue)
    /\ obs' = NoObs
    /\ UNCHANGED <<chain, height, errorLog, stars, now, ticks, nextId>>

\* the caller's reaction to the promise of getStarsByWalletAddress
RunStarsConsumer ==
    /\ queue # <<>> /\ Head(queue).type = "starsConsumer"
    /\ LET j == Head(queue)
       IN  obs' = [kind |-> "stars", id |-> j.id, address |-> j.address,
                   result |-> stars[j.id], expect |-> j.expect]
    /\ stars' = [stars EXCEPT ![Head(queue).id] = <<>>]
    /\ queue' = Tail(queue)
    /\ UNCHANGED <<chain, height, errorLog, now, ticks, nextId>>

\* ------------------------------------------------------------ the queries
\* A query settles its promise inside the call and queues nothing: obs is the
\* promise the caller holds (settled, and the value or the reason).
\* null, in the shape of a block
Null ==
    [body |-> <<>>, height |-> -1, time |-> 0, previousBlockHash |-> NoHash,
     hash |-> NoHash]

Query(op, arg, settled, found, value) ==
    [kind |-> "query", op |-> op, arg |-> arg, settled |-> settled,
     found |-> found, value |-> value]

\* resolve(this.height)
GetChainHeight ==
    /\ CallerMayRun
    /\ obs' = Query("getChainHeight", 0, "fulfilled", TRUE, height)
    /\ UNCHANGED <<chain, height, queue, errorLog, stars, now, ticks, nextId>>

\* resolve(`${address}:${seconds}:starRegistry`)
RequestMessageOwnershipVerification(address) ==
    /\ CallerMayRun
    /\ obs' = Query("requestMessageOwnershipVerification", address,
                    "fulfilled", TRUE, OwnershipMessage(address, now))
    /\ UNCHANGED <<chain, height, queue, errorLog, stars, now, ticks, nextId>>

\* self.chain.find(p => p.hash === hash): the index of the first block with
\* that hash, 0 when there is none
FindByHash(c, hash) ==
    LET found == {i \in 1..Len(c) : c[i].hash = hash}
    IN  IF found = {} THEN 0
        ELSE CHOOSE i \in found : \A k \in found : i <= k

\* resolve(block) if found, else reject("Block hash not found")
GetBlockByHash(hash) ==
    /\ CallerMayRun
    /\ LET i == FindByHash(chain, hash)
       IN  obs' = IF i # 0
                  THEN Query("getBlockByHash", hash, "fulfilled", TRUE,
                             chain[i])
                  ELSE Query("getBlockByHash", hash, "rejected", FALSE, Null)
    /\ UNCHANGED <<chain, height, queue, errorLog, stars, now, ticks, nextId>>

\* a caller's getBlockByHeight: resolve(block) if found, else resolve(null)
GetBlockByHeightCall(h) ==
    /\ CallerMayRun
    /\ LET i == GetBlockByHeight(chain, h)
       IN  obs' = IF i # 0
                  THEN Query("getBlockByHeight", h, "fulfilled", TRUE,
                             chain[i])
                  ELSE Query("getBlockByHeight", h, "fulfilled", FALSE, Null)
    /\ UNCHANGED <<chain, height, queue, errorLog, stars, now, ticks, nextId>>

\* a hash that no block has
MissingHash == <<"none">>

\* the hashes a caller can ask for: those of the stored blocks and one more
HashesOf(c) == {c[i].hash : i \in 1..Len(c)} \cup {MissingHash}

\* ------------------------------------------------------------------ clock
\* a second passes; the jobs of one run are taken to fall within one second
Tick ==
    /\ queue = <<>>
    /\ ticks < MaxTicks
    /\ now' = now + 1
    /\ ticks' = ticks + 1
    /\ obs' = NoObs
    /\ UNCHANGED <<chain, height, queue, errorLog, stars, nextId>>

\* ------------------------------------------------------------------- Next
\* the calls of a specification stop after n calls that queued a job
Budget(n) == nextId <= n

\* submitStar with a message just issued to the address and signed by it
SubmitOwn(addresses, starSet) ==
    \E a \in addresses, s \in starSet :
        SubmitStar(a, OwnershipMessage(a, now),
                   Sign(a, OwnershipMessage(a, now)), s)

\* submitStar with an expired message, and with another address's signature
SubmitRefused ==
    \E a \in Address :
        \/ SubmitStar(a, OwnershipMessage(a, now - 360),
                      Sign(a, OwnershipMessage(a, now - 360)), "s1")
        \/ \E b \in Address \ {a} :
              SubmitStar(a, OwnershipMessage(a, now),
                         Sign(b, OwnershipMessage(a, now)), "s1")

\* submitStar with every message and signature of the input sets
SubmitAny(addresses, starSet) ==
    \E a \in addresses, s \in starSet :
        \E m \in Messages(a, now) :
            \E g \in Signatures(m) : SubmitStar(a, m, g, s)

\* the heights a caller with a budget of n calls can name: those a chain can
\* have when a call is left, and one that no block has
HeightsFor(n) == 0..(n - 1)

RunAddJob ==
    \/ RunAddStep1
    \/ RunAllElems
    \/ RunAllDone
    \/ RunCheck
    \/ RunAddConsumer
    \/ RunSubmitThen
    \/ RunInitResume

RunTamperJob ==
    \/ RunTamper
    \/ RunValidateConsumer
    \/ RunSubmitCatch

RunStarJob ==
    \/ RunStarThen
    \/ RunStarSkip
    \/ RunStarCatch
    \/ RunStarsConsumer

\* the queries that queue nothing, for a caller with a budget of n calls
Readers(n) ==
    \/ GetChainHeight
    \/ \E a \in Address : RequestMessageOwnershipVerification(a)
    \/ \E hash \in HashesOf(chain) : GetBlockByHash(hash)
    \/ \E h \in HeightsFor(n) : GetBlockByHeightCall(h)

\* the whole class
Call ==
    \/ Readers(MaxCalls)
    \/ Budget(MaxCalls) /\ InitializeChain
    \/ Budget(MaxCalls) /\ SubmitOwn(Address, Stars)
    \/ Budget(MaxCalls) /\ SubmitRefused
    \/ Budget(MaxCalls) /\ \E h \in HeightsFor(MaxCalls) : TamperWithBlock(h)
    \/ Budget(MaxCalls) /\ \E h \in HeightsFor(MaxCalls) : TamperWithChain(h)
    \/ Budget(MaxCalls) /\ ValidateChainCall
    \/ Budget(MaxCalls) /\ \E a \in Address : GetStarsByWalletAddress(a)

Next == Call \/ RunAddJob \/ RunTamperJob \/ RunStarJob \/ Tick

Spec == Init /\ [][Next]_vars

\* no tamper hook: initializeChain, submitStar with every input, validateChain
CallAppend ==
    \/ Budget(MaxAppendCalls) /\ InitializeChain
    \/ Budget(MaxAppendCalls) /\ SubmitAny({"A"}, {"s1"})
    \/ Budget(MaxAppendCalls) /\ ValidateChainCall

NextAppend == CallAppend \/ RunAddJob \/ RunValidateConsumer \/ Tick

SpecAppend == Init /\ [][NextAppend]_vars

\* appends, the tamper hooks and validateChain
CallTamper ==
    \/ Budget(MaxTamperCalls) /\ SubmitOwn(Address, {"s1"})
    \/ Budget(MaxTamperCalls) /\ \E h \in HeightsFor(MaxTamperCalls) : TamperWithBlock(h)
    \/ Budget(MaxTamperCalls) /\ \E h \in HeightsFor(MaxTamperCalls) : TamperWithChain(h)
    \/ Budget(MaxTamperCalls) /\ ValidateChainCall

NextTamper == CallTamper \/ RunAddJob \/ RunTamperJob

SpecTamper == Init /\ [][NextTamper]_vars

\* appends and getStarsByWalletAddress
CallStars ==
    \/ Budget(MaxStarCalls) /\ SubmitOwn({"A"}, Stars)
    \/ Budget(MaxStarCalls) /\ SubmitOwn({"B"}, {"s1"})
    \/ Budget(MaxStarCalls) /\ \E a \in Address : GetStarsByWalletAddress(a)

NextStars == CallStars \/ RunAddJob \/ RunStarJob

SpecStars == Init /\ [][NextStars]_vars

\* the queries, next to initializeChain, appends, a tamper hook and
\* validateChain
CallQuery ==
    \/ Readers(MaxQueryCalls)
    \/ Budget(MaxQueryCalls) /\ InitializeChain
    \/ Budget(MaxQueryCalls) /\ SubmitOwn({"A"}, {"s1"})
    \/ Budget(MaxQueryCalls) /\ \E h \in HeightsFor(MaxQueryCalls) : TamperWithChain(h)
    \/ Budget(MaxQueryCalls) /\ ValidateChainCall
    \/ Budget(MaxQueryCalls) /\ GetStarsByWalletAddress("A")

NextQuery == CallQuery \/ RunAddJob \/ RunTamperJob \/ RunStarJob

SpecQuery == Init /\ [][NextQuery]_vars

\* one address appending, the tamper hooks on the first two heights and
\* validateChain
CallValidate ==
    \/ Budget(MaxValidateCalls) /\ SubmitOwn({"A"}, {"s1"})
    \/ Budget(MaxValidateCalls) /\ \E h \in TamperHeights : TamperWithBlock(h)
    \/ Budget(MaxValidateCalls) /\ \E h \in TamperHeights : TamperWithChain(h)
    \/ Budget(MaxValidateCalls) /\ ValidateChainCall

NextValidate == CallValidate \/ RunAddJob \/ RunTamperJob

SpecValidate == Init /\ [][NextValidate]_vars

\* a message issued to "A" long enough before the construction that it leaves
\* the window at the first tick, and the one call that is made again and again
ReplayMessage == OwnershipMessage("A", StartTime - 359)

Replay == SubmitStar("A", ReplayMessage, Sign("A", ReplayMessage), "s1")

NextReplay == (Budget(MaxReplayCalls) /\ Replay) \/ RunAddJob \/ Tick

SpecReplay == Init /\ [][NextReplay]_vars

\* submitStar with star "s2" in the ways that must not pass: an expired
\* message, another address's signature, bytes that are no signature, no
\* message
SubmitUnauthorized ==
    \E a \in Address :
        \/ SubmitStar(a, OwnershipMessage(a, now - 360),
                      Sign(a, OwnershipMessage(a, now - 360)), "s2")
        \/ \E b \in Address \ {a} :
              SubmitStar(a, OwnershipMessage(a, now),
                         Sign(b, OwnershipMessage(a, now)), "s2")
        \/ SubmitStar(a, OwnershipMessage(a, now), Malformed, "s2")
        \/ SubmitStar(a, NoMessage, Sign(a, NoMessage), "s2")

\* "A" submitting star "s1" with its own signature, every refused way of
\* submitting star "s2", and initializeChain
CallAuth ==
    \/ SubmitUnauthorized
    \/ Budget(MaxAuthCalls) /\ SubmitOwn({"A"}, {"s1"})
    \/ Budget(MaxAuthCalls) /\ InitializeChain

NextAuth == CallAuth \/ RunAddJob \/ RunSubmitCatch

SpecAuth == Init /\ [][NextAuth]_vars

\* ================================================================ claims
\* C1: without tamper calls, every block after the first carries the hash of
\* the block stored before it as previousBlockHash, also when several
\* _addBlock calls are in flight at once.
C1_ChainLinkage ==
    \A h \in 2..Len(chain) : chain[h].previousBlockHash = chain[h - 1].hash

\* C2: without tamper calls, the block stored at index i has height i, so no
\* two blocks of the chain carry the same height.
C2_HeightIsIndex ==
    \A i \in 1..Len(chain) : chain[i].height = i - 1

\* C3 (step): only an _addBlock that resolves changes the length of the chain
\* and the height counter, and it adds exactly one to both
C3_Step ==
    IF obs'.kind = "validated" /\ obs'.by = "add" /\ obs'.outcome = "resolved"
    THEN Len(chain') = Len(chain) + 1 /\ height' = height + 1
    ELSE Len(chain') = Len(chain) /\ height' = height

\* C3: the height counter is always chain.length - 1; an _addBlock that
\* resolves adds one to both, one that rejects (and every other step) changes
\* neither.
C3_Counter == [](height = Len(chain) - 1) /\ [][C3_Step]_vars

\* an append was rejected on a chain of genesis and at least one more block
C3_Witness ==
    /\ obs.kind = "validated" /\ obs.by = "add" /\ obs.outcome = "rejected"
    /\ Len(chain) >= 2
    /\ height = Len(chain) - 1

IsGenesis(block) == block.body = Encode(GenesisData)

\* C4: without tamper calls, from the return of the constructor on the chain
\* is not empty, its first block is the genesis block with height 0 and no
\* previousBlockHash, and it holds exactly one genesis block.
C4_Genesis ==
    /\ Len(chain) >= 1
    /\ IsGenesis(chain[1])
    /\ chain[1].height = 0
    /\ chain[1].previousBlockHash = NoHash
    /\ Cardinality({i \in 1..Len(chain) : IsGenesis(chain[i])}) = 1

\* the seconds between the time written in the message and now
Age(message) == now - ParseTime(message).n

Timed(o) ==
    o.kind = "submitStar" /\ o.message.defined /\ ~ParseTime(o.message).nan

\* C5: a submitStar whose message is 301 seconds old is rejected as expired;
\* one whose message is exactly 300 seconds old and rightly signed goes on to
\* the append.
C5_ExpiryBoundary ==
    Timed(obs) =>
        /\ Age(obs.message) = 301 => obs.outcome = "expired"
        /\ (/\ Age(obs.message) = 300
            /\ obs.signature = Sign(obs.address, obs.message))
                => obs.outcome = "adding"

\* the call passed the time check and its signature is not one of the
\* address over the message
BadSignature(o) ==
    /\ o.kind = "submitStar" /\ o.message.defined
    /\ ~Expired(now, ParseTime(o.message))
    /\ o.signature # Sign(o.address, o.message)

\* C6: a submitStar that passes the time check with a signature that does not
\* verify (verification returns false or throws) rejects, does not call
\* _addBlock, and leaves chain and height as they were.
C6_SignatureRejection ==
    [][BadSignature(obs') =>
          /\ obs'.outcome \in {"notValid", "threw"}
          /\ UNCHANGED <<chain, height, queue, nextId>>]_vars

\* a malformed signature was presented while a block was stored
C6_Witness ==
    /\ BadSignature(obs)
    /\ ~obs.signature.wellFormed
    /\ Len(chain) >= 1

\* C7: an _addBlock called on a chain that holds a block failing its
\* validation or a broken link rejects and stores nothing.
C7_CorruptChainRejects ==
    (obs.kind = "validated" /\ obs.by = "add" /\ obs.corrupt)
        => obs.outcome = "rejected"

\* what validateChain has to report on chain c
ExpectedErrors(c) ==
    {ErrNotValid(i - 1) : i \in {k \in 1..Len(c) : ~BlockValidate(c[k])}}
        \cup {ErrPrevHash(i - 1) : i \in {k \in 2..Len(c) :
                    c[k].previousBlockHash # c[k - 1].hash}}

Range(q) == {q[i] : i \in 1..Len(q)}

\* C8: the list a caller of validateChain receives holds, when it reads it,
\* one entry for every block failing its validation, one for every block
\* not linked to the block before it, and nothing else.
C8_ValidatorComplete ==
    (obs.kind = "validated" /\ obs.by = "caller") =>
        /\ Range(obs.errors) = ExpectedErrors(chain)
        /\ Len(obs.errors) = Cardinality(ExpectedErrors(chain))

\* C9: a validateChain called after tamperWithBlock(h) or tamperWithChain(h)
\* has changed the block of height h reports an error naming h.
C9_TamperDetected ==
    obs.kind = "validated" =>
        \A h \in obs.need : \E e \in Range(obs.errors) : e.h = h

\* a caller's validateChain after the block of height 1 was tampered with
C9_Witness ==
    /\ obs.kind = "validated" /\ obs.by = "caller"
    /\ 1 \in obs.need
    /\ Len(chain) >= 2

\* jobs of call id still in the queue whose type is in types
Pending(id, types) ==
    {i \in 1..Len(queue) : queue[i].id = id /\ queue[i].type \in types}

C11_MissesResolve ==
    (obs.kind = "query" /\ obs.op \in {"getBlockByHash", "getBlockByHeight"}) =>
        /\ obs.settled = "fulfilled"
        /\ IF obs.op = "getBlockByHeight"
           THEN /\ obs.found = (\E i \in 1..Len(chain) :
                                   chain[i].height = obs.arg)
                /\ obs.found => obs.value.height = obs.arg
           ELSE /\ obs.found = (\E i \in 1..Len(chain) :
                                   chain[i].hash = obs.arg)
                /\ obs.found => obs.value.hash = obs.arg
        /\ ~obs.found => obs.value = Null

Last(q) == q[Len(q)]

\* C12: every submitStar call settles: it has rejected when the call returns,
\* or its _addBlock is under way and will settle it (no call is left with a
\* promise that nothing can settle, also when the message is missing or holds
\* no time); and a star block that submitStar resolves with is the block that
\* getBlockByHeight returns for its height.
C12_SubmitSettles ==
    /\ obs.kind = "submitStar" =>
          \/ obs.outcome \in {"expired", "notValid", "threw"}
          \/ /\ obs.outcome = "adding"
             /\ \E i \in 1..Len(queue) :
                   queue[i].id = obs.id /\ queue[i].type = "addStep1"
    /\ (/\ obs.kind = "validated" /\ obs.by = "add"
        /\ obs.outcome = "resolved"
        /\ ~IsGenesis(Last(chain)))
          => chain[GetBlockByHeight(chain, Last(chain).height)] = Last(chain)

\* the step is the assignment of a tamper hook
TamperStep ==
    /\ obs'.kind = "settled"
    /\ obs'.op \in {"tamperWithBlock", "tamperWithChain"}

\* C13: every step other than a tamper hook's keeps the stored blocks, with all
\* their fields, as a prefix of the chain; the chain never gets shorter and
\* the height counter never gets smaller.
C13_AppendOnly ==
    [][TamperStep \/ (/\ Len(chain') >= Len(chain)
                      /\ SubSeq(chain', 1, Len(chain)) = chain
                      /\ height' >= height)]_vars

\* a block was pushed behind a star block
C13_Witness ==
    /\ obs.kind = "validated" /\ obs.by = "add" /\ obs.outcome = "resolved"
    /\ Len(chain) >= 3
    /\ ~IsGenesis(chain[2])

\* every assignment of _addBlock to the block has been made, and while no
\* tamper hook has changed it the hash is that of its fields
Finalized(block) ==
    /\ block.hash # NoHash
    /\ block.time # 0
    /\ block.height >= 0
    /\ block.height > 0 => block.previousBlockHash # NoHash
    /\ (block.time # TamperTime /\ block.previousBlockHash # <<TamperHash>>)
          => BlockValidate(block)

\* the step runs a job of an _addBlock that comes before its push
C14_BeforePush ==
    /\ queue # <<>>
    /\ Head(queue).type \in {"addStep1", "allElems", "allDone", "check"}
    /\ obs'.kind = "none"

\* C14: whenever a reader can run, every block of the chain is finalized and
\* the height counter counts it; the steps of an _addBlock before its push
\* (the stamping of the candidate, its validation) show nothing in chain or
\* height.
C14_AtomicVisibility ==
    /\ [](CallerMayRun =>
            /\ height = Len(chain) - 1
            /\ \A i \in 1..Len(chain) : Finalized(chain[i]))
    /\ [][C14_BeforePush => UNCHANGED <<chain, height>>]_vars

\* a query has run while a stamped candidate was waiting for its validation
C14_Witness ==
    /\ obs.kind = "query"
    /\ \E i \in 1..Len(queue) :
          /\ queue[i].type \in {"allElems", "allDone", "consumer"}
          /\ queue[i].cons.kind = "add"
          /\ queue[i].cons.block.height >= 1
    /\ Len(chain) >= 1

\* floor((now - issuedTime) / 60) > 5, false when the field is no number
Late(message) ==
    /\ ~ParseTime(message).nan
    /\ (now - ParseTime(message).n) \div SecondsPerMinute > WindowMinutes

\* what submitStar does with the result of bitcoinMessage.verify
AfterVerify(result) ==
    CASE result = "true" -> "adding"
      [] result = "false" -> "notValid"
      [] result = "throws" -> "threw"

C15_Step ==
    (obs'.kind = "submitStar" /\ obs'.message.defined) =>
        /\ (obs'.outcome = "expired") = Late(obs'.message)
        /\ Late(obs'.message) => UNCHANGED <<chain, height, queue, nextId>>
        /\ ~Late(obs'.message) =>
              obs'.outcome = AfterVerify(Verify(obs'.message, obs'.address,
                                                obs'.signature))

RECURSIVE ErrorsFrom(_, _)
ErrorsFrom(c, i) ==
    IF i > Len(c) THEN <<>>
    ELSE (IF c[i].hash # SHA256(c[i].body, c[i].height, c[i].time,
                                c[i].previousBlockHash)
          THEN <<ErrNotValid(c[i].height)>> ELSE <<>>)
         \o (IF /\ c[i].height > 0
                 /\ c[c[i].height + 1].previousBlockHash # c[c[i].height].hash
              THEN <<ErrPrevHash(c[i].height)>> ELSE <<>>)
         \o ErrorsFrom(c, i + 1)

\* the head of the queue is a job of validateChain called by a caller, or of
\* getStarsByWalletAddress
ReaderJob ==
    /\ queue # <<>>
    /\ LET j == Head(queue)
       IN  \/ j.type \in {"starThen", "starSkip", "starCatch", "starsConsumer"}
           \/ j.type \in {"allElems", "allDone", "consumer"}
                 /\ j.cons.kind = "caller"
           \/ /\ j.type = "check"
              /\ \E i \in 1..Len(queue) :
                    /\ queue[i].type = "consumer" /\ queue[i].id = j.id
                    /\ queue[i].cons.kind = "caller"

\* the step is the call of a read-only operation or runs one of its jobs
ReaderStep ==
    \/ obs'.kind = "query"
    \/ /\ obs'.kind = "called"
       /\ obs'.op \in {"validateChain", "getStarsByWalletAddress"}
    \/ ReaderJob /\ obs'.kind \in {"none", "validated", "stars"}

\* C17: no step of validateChain, getChainHeight, getBlockByHash,
\* getBlockByHeight, getStarsByWalletAddress or
\* requestMessageOwnershipVerification changes chain or height; and the list a
\* caller of validateChain receives, when nothing has changed the chain since
\* the call, is determined by the chain (so two calls in a row on the same
\* chain receive the same list) and is empty when the chain is valid.
C17_ReadOnly ==
    /\ []((obs.kind = "validated" /\ obs.by = "caller" /\ obs.at = chain) =>
            /\ obs.errors = ErrorsFrom(chain, 1)
            /\ ~ChainCorrupt(chain) => obs.errors = <<>>)
    /\ [][ReaderStep => UNCHANGED <<chain, height>>]_vars

\* a caller received a list that is not empty for the chain it had asked about
C17_Witness ==
    /\ obs.kind = "validated" /\ obs.by = "caller" /\ obs.at = chain
    /\ obs.errors # <<>>
    /\ Len(chain) >= 1

\* the call presents a message with the address's own signature over it,
\* inside the time window
InWindowSigned(o) ==
    /\ o.kind = "submitStar" /\ o.message.defined
    /\ ~Late(o.message)
    /\ o.signature = Sign(o.address, o.message)

\* C18: when one (address, message, signature) is submitted again and again,
\* every use inside the time window is accepted whatever the chain holds from
\* the uses before; a use made on a valid chain succeeds and appends a block
\* of its own owned by the address; and when all uses have run on a valid
\* chain, it holds one star block per use.
C18_ReplayAccepted ==
    /\ InWindowSigned(obs) => obs.outcome = "adding"
    /\ (obs.kind = "validated" /\ obs.by = "add" /\ ~obs.corrupt) =>
          /\ obs.outcome = "resolved"
          /\ Last(chain).body \in {Encode(GenesisData),
                                   Encode([owner |-> "A", star |-> "s1"])}
    /\ (queue = <<>> /\ ~ChainCorrupt(chain)) =>
          /\ Len(chain) = nextId
          /\ \A i \in 2..Len(chain) :
                chain[i].body = Encode([owner |-> "A", star |-> "s1"])

\* C19: every block of the chain other than a genesis block carries a payload
\* of a submitStar that passed the time check and whose signature verified,
\* with that call's address as owner: here the star "s1" of "A", and never the
\* star "s2" that only refused calls present; the same holds of every block
\* on its way into the chain.
C19_Authorized ==
    /\ \A i \in 1..Len(chain) :
          chain[i].body \in {Encode(GenesisData),
                             Encode([owner |-> "A", star |-> "s1"])}
    /\ \A i \in 1..Len(queue) :
          queue[i].type = "addStep1" =>
              queue[i].block.body \in {Encode(GenesisData),
                                       Encode([owner |-> "A", star |-> "s1"])}

\* "B" came with a signature of "A" while a star block of "A" was stored
C19_Witness ==
    /\ obs.kind = "submitStar"
    /\ obs.outcome = "notValid"
    /\ obs.address = "B"
    /\ Len(chain) >= 2
    /\ chain[2].body = Encode([owner |-> "A", star |-> "s1"])

====
